---- MODULE Spec2Model ----
(***************************************************************************)
(* Model of refactor_doc.py: a batch rewriter of the **Inherits:** line of *)
(* Markdown files.  Text is a sequence of one-character strings, so that   *)
(* the regular expressions, str.strip, str.replace and os.path.relpath are *)
(* computed character by character as the Python code computes them.       *)
(* Platform: POSIX (os.sep = "/", os.linesep = "\n").                      *)
(***************************************************************************)
EXTENDS Integers, Sequences, FiniteSets, TLC

VARIABLES
  cwd,          \* os.getcwd(): the directory relative paths are resolved in
  root_exists,  \* whether directory_path exists and can be scanned
  disk,         \* file id -> [exists, data]: the bytes of each file
  fault,        \* file id -> "ok" | "noread" | "nowrite": permission faults
  pc,           \* position of the script
  pending,      \* files the walker has listed and not yet yielded
  cur,          \* file_path of the running / last process_md_file call
  md_content,   \* local md_content of process_md_file
  inherits,     \* local inherits of process_md_file
  log,          \* filesystem events of the current run, in order
  run,          \* number of runs of the script started so far
  prev,         \* history: bytes a file held when it was last opened for reading
  passes,       \* history: number of process_md_file calls that wrote the file
  start_disk    \* history: disk when the current run started

vars == <<cwd, root_exists, disk, fault, pc, pending, cur, md_content,
          inherits, log, run, prev, passes, start_disk>>

----------------------------------------------------------------------------
(* Bounds *)
MaxChunks == 4     \* a generated document is at most this many chunks long
MaxFiles == 3      \* files in a generated directory tree
MaxRuns == 2       \* times the script is run on the same tree

----------------------------------------------------------------------------
(* Generic helpers on character sequences *)

SetMin(S) == CHOOSE x \in S : \A y \in S : x <= y
SetMax(S) == CHOOSE x \in S : \A y \in S : x >= y

StartsAt(s, i, t) ==
  /\ i >= 1
  /\ i + Len(t) - 1 <= Len(s)
  /\ SubSeq(s, i, i + Len(t) - 1) = t

\* str.find(t, from): first index >= from where t occurs, 0 when absent
Find(s, t, from) ==
  LET I == {i \in from..(Len(s) - Len(t) + 1) : StartsAt(s, i, t)}
  IN IF I = {} THEN 0 ELSE SetMin(I)

RECURSIVE Concat(_)
Concat(ss) == IF ss = <<>> THEN <<>> ELSE Head(ss) \o Concat(Tail(ss))

\* the ASCII characters str.isspace() holds of: space, \t, \n, \r, \f, the
\* vertical tab \x0b and the separators \x1c, \x1d, \x1e, \x1f (written here
\* as the characters themselves).  Python also counts the non-ASCII \x85,
\* \xa0, U+1680, U+2000-200A, U+2028, U+2029, U+202F, U+205F and U+3000,
\* which the strings of this module do not hold.
Whitespace == {" ", "\t", "\n", "\r", "\f", "", "", "", "", ""}

\* characters matched by \s (str pattern) and removed by str.strip()
IsSpace(c) == c \in Whitespace

\* str.strip()
strip(s) ==
  LET I == {i \in 1..Len(s) : ~IsSpace(s[i])}
  IN IF I = {} THEN <<>> ELSE SubSeq(s, SetMin(I), SetMax(I))

UpperCase == <<"A","B","C","D","E","F","G","H","I","J","K","L","M",
               "N","O","P","Q","R","S","T","U","V","W","X","Y","Z">>
LowerCase == <<"a","b","c","d","e","f","g","h","i","j","k","l","m",
               "n","o","p","q","r","s","t","u","v","w","x","y","z">>

\* str.lower(), one character
LowerChar(c) ==
  IF \E i \in 1..26 : UpperCase[i] = c
  THEN LowerCase[CHOOSE i \in 1..26 : UpperCase[i] = c]
  ELSE c

\* str.lower()
lower(s) == [i \in 1..Len(s) |-> LowerChar(s[i])]

\* str.endswith(t)
endswith(s, t) == Len(s) >= Len(t) /\ SubSeq(s, Len(s) - Len(t) + 1, Len(s)) = t

\* str.count(old): number of non-overlapping occurrences, scanning left to right
RECURSIVE str_count(_, _)
str_count(s, old) ==
  IF Len(s) < Len(old) THEN 0
  ELSE IF SubSeq(s, 1, Len(old)) = old
       THEN 1 + str_count(SubSeq(s, Len(old) + 1, Len(s)), old)
       ELSE str_count(Tail(s), old)

\* a variant of str.replace that stops after the first occurrence (count=1)
str_replace_first(s, old, new) ==
  LET i == Find(s, old, 1)
  IN IF i = 0 THEN s
     ELSE SubSeq(s, 1, i - 1) \o new \o SubSeq(s, i + Len(old), Len(s))

\* str.replace(old, new) with old non-empty: every non-overlapping occurrence
RECURSIVE str_replace(_, _, _)
str_replace(s, old, new) ==
  IF Len(s) < Len(old) THEN s
  ELSE IF SubSeq(s, 1, Len(old)) = old
       THEN new \o str_replace(SubSeq(s, Len(old) + 1, Len(s)), old, new)
       ELSE <<Head(s)>> \o str_replace(Tail(s), old, new)

----------------------------------------------------------------------------
(* Text-mode file I/O: open(path, 'r') and open(path, 'w'), newline=None *)

os_linesep == <<"\n">>

\* reading: "\r\n" and a lone "\r" are both translated to "\n"
RECURSIVE universal_newlines(_)
universal_newlines(b) ==
  IF b = <<>> THEN <<>>
  ELSE IF Head(b) = "\r"
       THEN IF Len(b) >= 2 /\ b[2] = "\n"
            THEN <<"\n">> \o universal_newlines(SubSeq(b, 3, Len(b)))
            ELSE <<"\n">> \o universal_newlines(Tail(b))
       ELSE <<Head(b)>> \o universal_newlines(Tail(b))

\* writing: every "\n" is translated to os.linesep
write_newlines(t) ==
  Concat([i \in 1..Len(t) |-> IF t[i] = "\n" THEN os_linesep ELSE <<t[i]>>])

----------------------------------------------------------------------------
(* os.path *)

Sep == "/"
PardirSeg == <<".", ".">>
CurdirSeg == <<".">>

\* str.split('/')
RECURSIVE split(_)
split(s) ==
  LET I == {k \in 1..Len(s) : s[k] = Sep}
  IN IF I = {} THEN <<s>>
     ELSE <<SubSeq(s, 1, SetMin(I) - 1)>> \o split(SubSeq(s, SetMin(I) + 1, Len(s)))

\* '/'.join(segments)
RECURSIVE sep_join(_)
sep_join(segs) ==
  IF segs = <<>> THEN <<>>
  ELSE IF Len(segs) = 1 THEN segs[1]
  ELSE segs[1] \o <<Sep>> \o sep_join(Tail(segs))

\* os.path.join(a, b)
os_path_join(a, b) ==
  IF b # <<>> /\ b[1] = Sep THEN b
  ELSE IF a = <<>> \/ a[Len(a)] = Sep THEN a \o b
  ELSE a \o <<Sep>> \o b

\* os.path.basename(p)
os_path_basename(p) ==
  LET I == {k \in 1..Len(p) : p[k] = Sep}
  IN IF I = {} THEN p ELSE SubSeq(p, SetMax(I) + 1, Len(p))

\* os.path.normpath of an absolute path, as its list of components:
\* empty and "." components vanish, ".." removes the component before it and
\* is dropped at the root
RECURSIVE normpath(_, _)
normpath(comps, acc) ==
  IF comps = <<>> THEN acc
  ELSE LET c == Head(comps)
       IN IF c = <<>> \/ c = CurdirSeg THEN normpath(Tail(comps), acc)
          ELSE IF c = PardirSeg
               THEN normpath(Tail(comps),
                             IF acc = <<>> THEN acc ELSE SubSeq(acc, 1, Len(acc) - 1))
               ELSE normpath(Tail(comps), Append(acc, c))

\* [x for x in os.path.abspath(path).split(sep) if x]
abspath(path) == normpath(split(os_path_join(cwd, path)), <<>>)

\* len(os.path.commonprefix([a, b])) for two component lists
CommonLen(a, b) ==
  LET n == IF Len(a) < Len(b) THEN Len(a) ELSE Len(b)
      D == {k \in 1..n : a[k] # b[k]}
  IN IF D = {} THEN n ELSE SetMin(D) - 1

\* os.path.relpath(path, start)
os_path_relpath(path, start) ==
  LET start_list == abspath(start)
      path_list == abspath(path)
      i == CommonLen(start_list, path_list)
      rel_list == [k \in 1..(Len(start_list) - i) |-> PardirSeg]
                    \o SubSeq(path_list, i + 1, Len(path_list))
  IN IF rel_list = <<>> THEN CurdirSeg ELSE sep_join(rel_list)

----------------------------------------------------------------------------
(* refactor_doc.py *)

Marker == <<"*","*","I","n","h","e","r","i","t","s",":","*","*">>

NoMatch == [matched |-> FALSE, value |-> <<>>]

\* a parse_inherits whose pattern skips only blanks after the label, so that
\* the captured value stays on the label's own line
parse_inherits_same_line(content) ==
  LET m == Find(content, Marker, 1)
      a == m + Len(Marker)
      n == Len(content)
      nls == {k \in a..n : content[k] = "\n"}
  IN IF m = 0 \/ nls = {} THEN NoMatch
     ELSE LET nb == {k \in a..n : content[k] \notin {" ", "\t"}}
              w == SetMin(nb)
          IN [matched |-> TRUE,
              value |-> strip(SubSeq(content, w, SetMin({k \in nls : k >= w}) - 1))]

\* parse_inherits: re.search(r'\*\*Inherits:\*\*\s*([\s\S]*?)\n', md_content),
\* then group(1).strip(); NoMatch stands for None.
\* The search succeeds at the first label iff a "\n" follows it.  \s* is
\* greedy and takes the whole run of whitespace after the label, line breaks
\* included; the lazy group then runs to the next "\n".  When no "\n" is left
\* after the run, \s* gives characters back down to the last "\n" of the run
\* and the group is empty.
parse_inherits(content) ==
  LET m == Find(content, Marker, 1)
      a == m + Len(Marker)
      n == Len(content)
      nls == {k \in a..n : content[k] = "\n"}
  IN IF m = 0 \/ nls = {} THEN NoMatch
     ELSE LET ns == {k \in a..n : ~IsSpace(content[k])}
              w == IF ns = {} THEN n + 1 ELSE SetMin(ns)
              after == {k \in nls : k >= w}
          IN IF after # {}
             THEN [matched |-> TRUE,
                   value |-> strip(SubSeq(content, w, SetMin(after) - 1))]
             ELSE [matched |-> TRUE, value |-> <<>>]

default_path == <<"d","o","c","s","/","d","o","c","s","/","s","r","c">>
start == <<"d","o","c","s","/","d","o","c","s","/","s","r","c","/",
           "s","r","c","/","X","/","X","/">>

\* a replace_path that returns the reference it was given
replace_path_unchanged(group0) == group0

\* replace_path(match), on match.group(0)
replace_path(group0) ==
  LET path == default_path \o SubSeq(group0, 2, Len(group0) - 1)
      relative_path == os_path_relpath(path, start)
  IN <<"(">> \o relative_path \o <<")">>

\* re.sub(r'\([^)]+\)', replace_path, line) from position i on: a match
\* starts at a "(" whose next ")" is at least two characters further
RECURSIVE re_sub_from(_, _)
re_sub_from(line, i) ==
  IF i > Len(line) THEN <<>>
  ELSE LET closes == {k \in (i + 1)..Len(line) : line[k] = ")"}
       IN IF line[i] = "(" /\ closes # {} /\ SetMin(closes) > i + 1
          THEN replace_path(SubSeq(line, i, SetMin(closes)))
                 \o re_sub_from(line, SetMin(closes) + 1)
          ELSE <<line[i]>> \o re_sub_from(line, i + 1)

replace_paths_with_empty_brackets(line) == re_sub_from(line, 1)

\* lines 29-34 of process_md_file: the new md_content
modify(content, inh) ==
  IF inh.matched /\ inh.value # <<>>
  THEN str_replace(content, inh.value, replace_paths_with_empty_brackets(inh.value))
  ELSE content

DeleteNames == {<<"r","e","a","d","m","e",".","m","d">>,
                <<"s","u","m","m","a","r","y",".","m","d">>}

\* line 44: file_name.lower() in ['readme.md', 'summary.md']
is_deleted_name(file_path) == lower(os_path_basename(file_path)) \in DeleteNames

MdExt == <<".","m","d">>

----------------------------------------------------------------------------
(* The directory tree: the files that may exist under directory_path *)

directory_path == <<".",".","/","d","o","c","s","/","d","o","c","s","/",
                    "c","o","n","t","r","a","c","t","s","/","s","r","c">>
SubDir == os_path_join(directory_path, <<"s">>)

FileTable == <<
  [root |-> directory_path, file |-> <<"R","E","A","D","M","E",".","m","d">>],
  [root |-> directory_path, file |-> <<"n","o","t","e","s",".","m","d">>],
  [root |-> directory_path, file |-> <<"s","u","m","m","a","r","y",".","M","D">>],
  [root |-> SubDir,         file |-> <<"R","e","a","d","m","e",".","m","d">>],
  [root |-> SubDir,         file |-> <<"S","U","M","M","A","R","Y",".","m","d">> ] >>

Files == 1..Len(FileTable)
NoFile == 0
\* notes.md, the file of the single-document runs
Focus == CHOOSE f \in Files : FileTable[f].file = <<"n","o","t","e","s",".","m","d">>

\* line 53: file_path = os.path.join(root, file)
file_path_of(f) == os_path_join(FileTable[f].root, FileTable[f].file)

Absent == [exists |-> FALSE, data |-> <<>>]
FileOf(bytes) == [exists |-> TRUE, data |-> bytes]

----------------------------------------------------------------------------
(* Input documents *)

NL == <<"\n">>
CR == <<"\r">>
SP == <<" ">>
TX == <<"x">>
VT == <<"">>                          \* a vertical tab

\* the p of a path reference (p)
RefPaths == { <<"/","a">>,
              <<"a">>,
              <<".",".","/","a">>,
              <<"/","s","r","c","/","X","/","X">>,
              <<"/",".",".","/",".",".","/",".",".","/",".",".","/","w">> }

Ref(p) == <<"(">> \o p \o <<")">>

ChunkKinds == {"M", "N", "R", "S", "P", "X", "V"}

Chunk(k, p) ==
  CASE k = "M" -> Marker
    [] k = "N" -> NL
    [] k = "R" -> CR
    [] k = "S" -> SP
    [] k = "P" -> Ref(p)
    [] k = "X" -> TX
    [] k = "V" -> VT

ChunkSeqs == UNION {[1..n -> ChunkKinds] : n \in 0..MaxChunks}

\* all documents of at most MaxChunks chunks, the references all being (p)
Docs == {Concat([i \in 1..Len(ks) |-> Chunk(ks[i], p)]) : ks \in ChunkSeqs, p \in RefPaths}

\* the documents of the files of a generated tree
SampleDocs == { TX \o CR \o NL,
                Marker \o SP \o Ref(<<"/","a">>) \o NL }

CwdSet == { <<"/">>, <<"/","w">> }

Faults == {"ok", "noread", "nowrite"}

----------------------------------------------------------------------------
(* Initial states *)

InitCommon ==
  /\ pc = "main"
  /\ pending = {}
  /\ cur = NoFile
  /\ md_content = <<>>
  /\ inherits = NoMatch
  /\ log = <<>>
  /\ run = 0
  /\ prev = [f \in Files |-> <<>>]
  /\ passes = [f \in Files |-> 0]
  /\ start_disk = disk

\* a tree of at most MaxFiles files, or a missing directory_path
InitTree ==
  /\ cwd = <<"/","w">>
  /\ root_exists \in BOOLEAN
  /\ \E T \in SUBSET Files :
       /\ Cardinality(T) <= MaxFiles
       /\ ~root_exists => T = {}
       /\ disk \in [Files -> {Absent} \cup {FileOf(d) : d \in SampleDocs}]
       /\ \A f \in Files : disk[f].exists <=> f \in T
       /\ fault \in [Files -> Faults]
       /\ \A f \in Files : f \notin T => fault[f] = "ok"
  /\ InitCommon

\* one readable, writable file notes.md holding any document
InitDoc ==
  /\ cwd \in CwdSet
  /\ root_exists = TRUE
  /\ \E d \in Docs : disk = [f \in Files |-> IF f = Focus THEN FileOf(d) ELSE Absent]
  /\ fault = [f \in Files |-> "ok"]
  /\ InitCommon

Init == InitTree

----------------------------------------------------------------------------
(* The script *)

Event(op, f) == [op |-> op, f |-> f]

\* os.walk(directory) with the default onerror=None: the OSError of scanning
\* a missing or unreadable directory is ignored and the walk yields nothing
scandir_error_propagates == ~root_exists
scandir_error_raised == FALSE

\* the files os.walk will yield
os_walk == IF root_exists THEN {f \in Files : disk[f].exists} ELSE {}

Depth(f) == Len(split(FileTable[f].root))

\* os.walk is top-down: the files of a directory are yielded before those of
\* its subdirectories, in the order the filesystem lists them
WalkNext == {f \in pending : \A g \in pending : Depth(f) <= Depth(g)}

\* lines 56-61 and line 50: the script starts and lists the tree
Start ==
  /\ pc \in {"main", "done"}
  /\ run < MaxRuns
  /\ run' = run + 1
  /\ log' = <<>>
  /\ start_disk' = disk
  /\ cur' = NoFile
  /\ IF scandir_error_raised
     THEN pc' = "aborted" /\ pending' = {}
     ELSE pc' = "loop" /\ pending' = os_walk
  /\ UNCHANGED <<cwd, root_exists, disk, fault, md_content, inherits, prev, passes>>

\* lines 51-54: the next file ends with '.md' and process_md_file is called
PickMd ==
  /\ pc = "loop"
  /\ \E f \in WalkNext :
       /\ endswith(FileTable[f].file, MdExt)
       /\ cur' = f
       /\ pending' = pending \ {f}
  /\ pc' = "process"
  /\ UNCHANGED <<cwd, root_exists, disk, fault, md_content, inherits, log, run,
                 prev, passes, start_disk>>

\* lines 51-52: the next file does not end with '.md' and is passed over
SkipOther ==
  /\ pc = "loop"
  /\ \E f \in WalkNext :
       /\ ~endswith(FileTable[f].file, MdExt)
       /\ pending' = pending \ {f}
  /\ UNCHANGED <<cwd, root_exists, disk, fault, pc, cur, md_content, inherits, log,
                 run, prev, passes, start_disk>>

\* lines 25-29: read the file and parse the Inherits line
Read ==
  /\ pc = "process"
  /\ fault[cur] # "noread"
  /\ md_content' = universal_newlines(disk[cur].data)
  /\ inherits' = parse_inherits(md_content')
  /\ prev' = [prev EXCEPT ![cur] = disk[cur].data]
  /\ log' = Append(log, Event("read", cur))
  /\ pc' = "parsed"
  /\ UNCHANGED <<cwd, root_exists, disk, fault, pending, cur, run, passes, start_disk>>

\* a ReadFail under an except clause that goes on with the next file
ReadFail_swallowed ==
  /\ pc = "process"
  /\ fault[cur] = "noread"
  /\ log' = Append(log, Event("read_error", cur))
  /\ pc' = "loop"
  /\ UNCHANGED <<cwd, root_exists, disk, fault, pending, cur, md_content, inherits,
                 run, prev, passes, start_disk>>

\* line 25: open(file_path, 'r') raises; nothing catches it
ReadFail ==
  /\ pc = "process"
  /\ fault[cur] = "noread"
  /\ log' = Append(log, Event("read_error", cur))
  /\ pc' = "aborted"
  /\ UNCHANGED <<cwd, root_exists, disk, fault, pending, cur, md_content, inherits,
                 run, prev, passes, start_disk>>

\* a Write that leaves the file alone when the content did not change
Write_if_changed ==
  /\ pc = "parsed"
  /\ fault[cur] # "nowrite"
  /\ md_content' = modify(md_content, inherits)
  /\ IF md_content' = md_content
     THEN UNCHANGED <<disk, passes, log>>
     ELSE /\ disk' = [disk EXCEPT ![cur] = FileOf(write_newlines(md_content'))]
          /\ passes' = [passes EXCEPT ![cur] = @ + 1]
          /\ log' = Append(log, Event("write", cur))
  /\ pc' = "written"
  /\ UNCHANGED <<cwd, root_exists, fault, pending, cur, inherits, run, prev, start_disk>>

\* lines 32-40: rewrite the Inherits line and write the file back
Write ==
  /\ pc = "parsed"
  /\ fault[cur] # "nowrite"
  /\ md_content' = modify(md_content, inherits)
  /\ disk' = [disk EXCEPT ![cur] = FileOf(write_newlines(md_content'))]
  /\ passes' = [passes EXCEPT ![cur] = @ + 1]
  /\ log' = Append(log, Event("write", cur))
  /\ pc' = "written"
  /\ UNCHANGED <<cwd, root_exists, fault, pending, cur, inherits, run, prev, start_disk>>

\* line 37: open(file_path, 'w') raises before the file is truncated;
\* nothing catches it
WriteFail ==
  /\ pc = "parsed"
  /\ fault[cur] = "nowrite"
  /\ md_content' = modify(md_content, inherits)
  /\ log' = Append(log, Event("write_error", cur))
  /\ pc' = "aborted"
  /\ UNCHANGED <<cwd, root_exists, disk, fault, pending, cur, inherits, run, prev,
                 passes, start_disk>>

\* lines 43-46: the base name matches and the file is removed
Remove ==
  /\ pc = "written"
  /\ is_deleted_name(file_path_of(cur))
  /\ disk' = [disk EXCEPT ![cur] = Absent]
  /\ log' = Append(log, Event("remove", cur))
  /\ pc' = "loop"
  /\ UNCHANGED <<cwd, root_exists, fault, pending, cur, md_content, inherits, run,
                 prev, passes, start_disk>>

\* lines 43-44: the base name does not match and the file stays
Keep ==
  /\ pc = "written"
  /\ ~is_deleted_name(file_path_of(cur))
  /\ pc' = "loop"
  /\ UNCHANGED <<cwd, root_exists, disk, fault, pending, cur, md_content, inherits,
                 log, run, prev, passes, start_disk>>

\* line 63: the walk is exhausted and the completion line is printed
Finish ==
  /\ pc = "loop"
  /\ pending = {}
  /\ pc' = "done"
  /\ UNCHANGED <<cwd, root_exists, disk, fault, pending, cur, md_content, inherits,
                 log, run, prev, passes, start_disk>>

Next ==
  \/ Start
  \/ PickMd
  \/ SkipOther
  \/ Read
  \/ ReadFail
  \/ Write
  \/ WriteFail
  \/ Remove
  \/ Keep
  \/ Finish

\* runs of the script over a generated tree
Spec == Init /\ [][Next]_vars

\* runs of the script over a generated tree or over one file holding any document
SpecDoc == (InitTree \/ InitDoc) /\ [][Next]_vars

TypeOK ==
  /\ pc \in {"main", "loop", "process", "parsed", "written", "done", "aborted"}
  /\ cur \in Files \cup {NoFile}
  /\ pending \subseteq Files
  /\ run \in 0..MaxRuns

----------------------------------------------------------------------------
(* Properties of one process_md_file call *)

\* the file has just been written back (line 38) and not yet removed
JustWritten == pc = "written"

\* process_md_file has returned normally
Returned == pc \in {"loop", "done"} /\ cur # NoFile

InBytes == prev[cur]
OutBytes == disk[cur].data
InText == universal_newlines(InBytes)
OutText == universal_newlines(OutBytes)

Parens(v) == {i \in 1..Len(v) : v[i] \in {"(", ")"}}

\* v holds exactly one parenthesised reference (p), p non-empty, and no other
\* parenthesis
OneRef(v) ==
  /\ Cardinality(Parens(v)) = 2
  /\ v[SetMin(Parens(v))] = "("
  /\ v[SetMax(Parens(v))] = ")"
  /\ SetMax(Parens(v)) > SetMin(Parens(v)) + 1

RefOpen(v) == SetMin(Parens(v))
RefClose(v) == SetMax(Parens(v))
RefInner(v) == SubSeq(v, RefOpen(v) + 1, RefClose(v) - 1)

\* docs/docs/src/p: the base path and p joined as path segments
JoinedPath(p) == default_path \o <<Sep>> \o p

\* the field value the claim C1 expects for the value v
ExpectedField(v) ==
  SubSeq(v, 1, RefOpen(v))
    \o os_path_relpath(JoinedPath(RefInner(v)), start)
    \o SubSeq(v, RefClose(v), Len(v))

\* C1 (as claimed): when the Inherits value holds exactly one well-formed
\* reference (p), the reference in the field after process_md_file is "(" R ")"
\* with R the relative path from docs/docs/src/src/X/X/ to docs/docs/src/p,
\* whether or not p begins with "/".
C1_RefIsRelpathOfJoined ==
  (JustWritten /\ inherits.matched /\ OneRef(inherits.value))
    => parse_inherits(OutText).value = ExpectedField(inherits.value)

\* the same statement for the references that begin with "/"
C1_SlashRefs ==
  (JustWritten /\ inherits.matched /\ OneRef(inherits.value)
     /\ RefInner(inherits.value)[1] = Sep)
    => parse_inherits(OutText).value = ExpectedField(inherits.value)

HasMarker(b) == Find(b, Marker, 1) # 0

\* C3 (as claimed): a document without the **Inherits:** label has the same
\* content after process_md_file as before, and the file still exists unless
\* its lower-cased base name is readme.md or summary.md.
C3_NoLabelUnchanged ==
  /\ (JustWritten /\ ~HasMarker(InBytes)) => OutBytes = InBytes
  /\ (Returned /\ ~HasMarker(InBytes)) =>
        /\ disk[cur].exists <=> ~is_deleted_name(file_path_of(cur))
        /\ disk[cur].exists => OutBytes = InBytes

\* the same statement for the documents without a carriage return
C3_NoCarriageReturn ==
  /\ (JustWritten /\ ~HasMarker(InBytes) /\ Find(InBytes, CR, 1) = 0)
        => OutBytes = InBytes
  /\ (Returned /\ ~HasMarker(InBytes) /\ Find(InBytes, CR, 1) = 0) =>
        /\ disk[cur].exists <=> ~is_deleted_name(file_path_of(cur))
        /\ disk[cur].exists => OutBytes = InBytes

\* where the captured value v lies in b: its first occurrence after the label
FieldAt(b, v) == Find(b, v, Find(b, Marker, 1) + Len(Marker))

\* after differs from before at most inside the field value v
OnlyFieldChanged(before, after, v) ==
  LET w == FieldAt(before, v)
      head == SubSeq(before, 1, w - 1)
      tail == SubSeq(before, w + Len(v), Len(before))
  IN /\ Len(after) >= Len(head) + Len(tail)
     /\ SubSeq(after, 1, Len(head)) = head
     /\ SubSeq(after, Len(after) - Len(tail) + 1, Len(after)) = tail

\* C4 (as claimed): process_md_file changes only the text of the captured
\* value after the first **Inherits:** label; every character of the text
\* outside it is the same before and after.
C4_OnlyFieldChanges ==
  JustWritten =>
    IF inherits.matched /\ inherits.value # <<>>
    THEN OnlyFieldChanged(InText, OutText, inherits.value)
    ELSE OutText = InText

\* the same statement for the documents in which the captured value occurs once
C4_NoAlias ==
  (JustWritten /\ (inherits.value # <<>> => str_count(InText, inherits.value) = 1)) =>
    IF inherits.matched /\ inherits.value # <<>>
    THEN OnlyFieldChanged(InText, OutText, inherits.value)
    ELSE OutText = InText


\* the regular expression \([^)]+\) matches somewhere in v
HasRef(v) ==
  \E i \in 1..Len(v) : \E j \in (i + 2)..Len(v) :
    /\ v[i] = "("
    /\ v[j] = ")"
    /\ \A k \in (i + 1)..(j - 1) : v[k] # ")"

\* normalising the components climbs above the root directory, where ".."
\* has no effect
RECURSIVE Underflows(_, _)
Underflows(comps, depth) ==
  IF comps = <<>> THEN FALSE
  ELSE LET c == Head(comps)
       IN IF c = <<>> \/ c = CurdirSeg THEN Underflows(Tail(comps), depth)
          ELSE IF c = PardirSeg
               THEN depth = 0 \/ Underflows(Tail(comps), depth - 1)
               ELSE Underflows(Tail(comps), depth + 1)

\* the second call reads a value with one reference, and default_path put in
\* front of that reference stays inside the filesystem
SecondPassOfOneRef ==
  /\ JustWritten
  /\ passes[cur] = 2
  /\ OneRef(inherits.value)
  /\ ~Underflows(split(os_path_join(cwd, default_path \o RefInner(inherits.value))), 0)

\* C7: process_md_file is not idempotent: for a document with a path
\* reference in its Inherits value, the content after the second call differs
\* from the content after the first (the input of the second call), because
\* default_path is put in front of the already relative path again.
C7_SecondPassDiffers ==
  SecondPassOfOneRef =>
    /\ OutBytes # InBytes
    /\ parse_inherits(OutText).value # inherits.value

C7_Witness ==
  /\ SecondPassOfOneRef
  /\ OutBytes # InBytes
  /\ start_disk[cur].data = InBytes

\* k: how many times the captured value occurs in the text read
Occurrences == str_count(InText, inherits.value)
Rewritten == replace_paths_with_empty_brackets(inherits.value)
Aliased == inherits.value # <<>> /\ Occurrences >= 2 /\ Rewritten # inherits.value

\* what line 34 does when the captured value occurs k >= 2 times in the
\* text: str.replace has no count and rewrites every one of the k occurrences
C8_EveryOccurrenceReplaced ==
  (JustWritten /\ Aliased) =>
    /\ Len(OutText) = Len(InText) + Occurrences * (Len(Rewritten) - Len(inherits.value))
    /\ str_count(OutText, inherits.value) = 0
    /\ str_count(OutText, Rewritten) >= Occurrences

\* C8: when the captured value occurs k >= 2 times in the text, only the
\* first occurrence is replaced and the other k-1 occurrences are left as they
\* were.
C8_OnlyFirstReplaced ==
  (JustWritten /\ Aliased) => str_count(OutText, inherits.value) = Occurrences - 1

C8_Witness == JustWritten /\ Aliased /\ str_count(OutText, inherits.value) = 0

\* first index after the first label
AfterLabel == Find(md_content, Marker, 1) + Len(Marker)

\* the first "\n" at or after index i of md_content, 0 when there is none
NextBreak(i) ==
  LET I == {k \in i..Len(md_content) : md_content[k] = "\n"}
  IN IF I = {} THEN 0 ELSE SetMin(I)

\* the first character after the label that is not whitespace, 0 when none
FirstInk ==
  LET I == {k \in AfterLabel..Len(md_content) : ~IsSpace(md_content[k])}
  IN IF I = {} THEN 0 ELSE SetMin(I)

\* C9 (amended): line breaks after the label are skipped as whitespace: the
\* captured value begins at the first non-whitespace character after the
\* label, on whatever line it is, and is the rest of that line without its
\* trailing whitespace; it is empty only when no such character is followed
\* by a line break.
C9_ValueIsFirstInkedLine ==
  (pc = "parsed" /\ HasMarker(md_content)) =>
    LET v == inherits.value
    IN /\ \A i \in 1..Len(v) : v[i] # "\n"
       /\ IF FirstInk # 0 /\ NextBreak(FirstInk) # 0
          THEN /\ inherits.matched
               /\ v # <<>>
               /\ StartsAt(md_content, FirstInk, v)
               /\ ~IsSpace(v[Len(v)])
               /\ \A k \in (FirstInk + Len(v))..NextBreak(FirstInk) :
                     IsSpace(md_content[k])
          ELSE v = <<>>

\* C9 (as claimed): the captured value lies between the label and the first
\* line break after the label, so it is empty when the label is immediately
\* followed by a line break.
C9_ValueOnLabelLine ==
  (pc = "parsed" /\ inherits.matched) =>
    inherits.value = strip(SubSeq(md_content, AfterLabel, NextBreak(AfterLabel) - 1))

C9_Witness ==
  /\ pc = "parsed"
  /\ inherits.matched
  /\ md_content[AfterLabel] = "\n"
  /\ inherits.value # <<>>
  /\ HasRef(inherits.value)

----------------------------------------------------------------------------
(* Properties of a run of process_all_md_files *)

\* the operations of the log that concern file f, in order
OpsOf(f) ==
  LET sel == SelectSeq(log, LAMBDA e : e.f = f)
  IN [i \in 1..Len(sel) |-> sel[i].op]

\* the operations of a complete, successful process_md_file(f)
FullOps(f) ==
  IF is_deleted_name(file_path_of(f))
  THEN <<"read", "write", "remove">>
  ELSE <<"read", "write">>

IsPrefix(a, b) == Len(a) <= Len(b) /\ SubSeq(b, 1, Len(a)) = a

MdFiles == {f \in Files : endswith(FileTable[f].file, MdExt)}

\* the '.md' files the walk of this run yields
Walked == {f \in MdFiles : root_exists /\ start_disk[f].exists}

\* what process_md_file leaves in a file that held the bytes b
Processed(b) ==
  LET text == universal_newlines(b)
  IN write_newlines(modify(text, parse_inherits(text)))

\* C2 (as claimed): after a run that completes without error no file whose
\* base name equals readme.md or summary.md case-insensitively, an upper-case
\* extension included, still exists.
C2_NoReadmeOrSummaryLeft ==
  pc = "done" =>
    \A f \in Files : lower(FileTable[f].file) \in DeleteNames => ~disk[f].exists

\* the same statement for the names that end with a lower-case '.md'
C2_LowerCaseExtension ==
  pc = "done" =>
    \A f \in MdFiles : lower(FileTable[f].file) \in DeleteNames => ~disk[f].exists

\* what the code does when directory_path does not exist: os.walk raises no
\* error, so the run processes no file, changes nothing and goes on to the
\* completion line
C5_MissingRootCompletes ==
  ~root_exists =>
    /\ pc \in {"main", "loop", "done"}
    /\ pending = {}
    /\ cur = NoFile
    /\ log = <<>>
    /\ disk = start_disk
    /\ pc = "loop" => ENABLED Finish

\* C5: with a missing directory_path the run fails with an uncaught error
\* before any file is processed, and the completion line is never reached.
C5_MissingRootFails == ~root_exists => pc # "done"

C5_Witness == ~root_exists /\ pc = "done" /\ run = 1

IsError(e) == e.op \in {"read_error", "write_error"}

\* the state part of C6: an error event is the last event of an aborted run
C6_State ==
  /\ \A i \in 1..Len(log) : IsError(log[i]) => (pc = "aborted" /\ i = Len(log))
  /\ pc = "aborted" =>
       /\ cur \in Walked
       /\ IsError(log[Len(log)]) /\ log[Len(log)].f = cur
       /\ disk[cur].exists
       /\ \A i \in 1..Len(log) : ~(log[i].op = "remove" /\ log[i].f = cur)
       /\ \A f \in pending : OpsOf(f) = <<>> /\ disk[f] = start_disk[f]
       /\ \A f \in Walked \ (pending \cup {cur}) :
            /\ OpsOf(f) = FullOps(f)
            /\ IF is_deleted_name(file_path_of(f))
               THEN ~disk[f].exists
               ELSE disk[f] = FileOf(Processed(start_disk[f].data))

\* the step part of C6: nothing happens after the error
C6_Step == pc = "aborted" => (pc' = "aborted" /\ disk' = disk /\ log' = log)

\* C6: a failing read or write is not caught and stops the batch at that
\* file: the files yielded before it are fully processed, the files not yet
\* yielded are never read, written or removed, and the failing file is not
\* removed.
C6_ErrorStopsBatch == []C6_State /\ [][C6_Step]_vars

C6_Witness ==
  /\ pc = "aborted"
  /\ pending \cap MdFiles # {}
  /\ Walked \ (pending \cup {cur}) # {}
  /\ \E f \in Walked \ (pending \cup {cur}) : ~disk[f].exists

\* C10: the events of each processed file are read, write, then remove only
\* for a readme.md / summary.md name: no remove without the write before it,
\* one write per file, and the events of a file are over before those of the
\* next file begin.
C10_EventOrder ==
  /\ \A f \in Files :
       \/ IsPrefix(OpsOf(f), FullOps(f))
       \/ OpsOf(f) \in {<<"read_error">>, <<"read", "write_error">>}
  /\ \A i \in 1..Len(log) : \A k \in (i + 1)..Len(log) :
       log[i].f = log[k].f => \A j \in i..k : log[j].f = log[i].f
  /\ \A i \in 1..(Len(log) - 1) :
       log[i].f # log[i + 1].f => OpsOf(log[i].f) = FullOps(log[i].f)
  /\ Returned => OpsOf(cur) = FullOps(cur)
  /\ pc = "done" => \A f \in Walked : OpsOf(f) = FullOps(f)

C10_Witness ==
  /\ pc = "done"
  /\ \E f \in Walked : ~is_deleted_name(file_path_of(f))
  /\ \E i \in 1..(Len(log) - 1) : log[i].op = "remove" /\ log[i + 1].op = "read"

====
